---- MODULE Spec2Model ----
(***************************************************************************)
(* Demand Overlap Coefficient (DOC) calculation of run_DOC_calculation.py. *)
(*                                                                         *)
(* Demands are natural numbers, on which the float64 sums, products and    *)
(* minima of the code are exact.  The quotient counter / denominator is    *)
(* kept as the exact fraction of the two, so two DOC values are equal iff  *)
(* their cross products are.  A call returns a float or nan, or raises a   *)
(* Python exception; the outcome is the "kind" field of the result.        *)
(***************************************************************************)
EXTENDS Integers, Sequences, FiniteSets

VARIABLES heat_dem_list, cool_dem_list, scale, pc, call, ret

vars == <<heat_dem_list, cool_dem_list, scale, pc, call, ret>>

(* ---------------- bounds of the checked input space ---------------- *)
MaxBldgs == 2
MaxT == 2
MaxVal == 2
MaxTotal == 4
MaxCells == 4
MaxScale == 2

(* ---------------- results of a call ---------------- *)
Float(counter, denominator) ==
    [kind |-> "float", counter |-> counter, denominator |-> denominator]

Raise(exc) == [kind |-> exc, counter |-> 0, denominator |-> 0]

Unset == Raise("unset")

(* Python's "counter / denominator".  A counter that went through np.min  *)
(* is a numpy scalar, and numpy division by zero warns and returns nan    *)
(* (0/0) or inf (x/0); a counter that is still the int 0 of an empty sum  *)
(* divided by the int 0 raises ZeroDivisionError.                          *)
truediv(counter, denominator, numpy_scalar) ==
    IF denominator # 0 THEN Float(counter, denominator)
    ELSE IF ~numpy_scalar THEN Raise("ZeroDivisionError")
    ELSE IF counter = 0 THEN Raise("nan")
    ELSE Raise("inf")

(* ---------------- builtins ---------------- *)
RECURSIVE sum(_)
sum(s) == IF s = <<>> THEN 0 ELSE Head(s) + sum(Tail(s))

np_min(a, b) == IF a <= b THEN a ELSE b

(* ---------------- calc_DOC ---------------- *)
(* Variant: the factor 2 of the counter is left out. *)
calc_DOC_no_factor(heat_dem, cool_dem) ==
    LET t_steps == 1..Len(heat_dem) IN
    IF \E k \in t_steps : k > Len(cool_dem)
    THEN Raise("IndexError")
    ELSE LET counter == sum([k \in t_steps |-> np_min(heat_dem[k], cool_dem[k])])
             denominator == sum([k \in t_steps |-> heat_dem[k] + cool_dem[k]])
         IN  truediv(counter, denominator, t_steps # {})

(* Variant: "2 + min" in place of "2 * min". *)
calc_DOC_plus(heat_dem, cool_dem) ==
    LET t_steps == 1..Len(heat_dem) IN
    IF \E k \in t_steps : k > Len(cool_dem)
    THEN Raise("IndexError")
    ELSE LET counter == sum([k \in t_steps |-> 2 + np_min(heat_dem[k], cool_dem[k])])
             denominator == sum([k \in t_steps |-> heat_dem[k] + cool_dem[k]])
         IN  truediv(counter, denominator, t_steps # {})

calc_DOC(heat_dem, cool_dem) ==
    LET t_steps == 1..Len(heat_dem) IN
    IF \E k \in t_steps : k > Len(cool_dem)
    THEN Raise("IndexError")
    ELSE LET counter == sum([k \in t_steps |-> 2 * np_min(heat_dem[k], cool_dem[k])])
             denominator == sum([k \in t_steps |-> heat_dem[k] + cool_dem[k]])
         IN  truediv(counter, denominator, t_steps # {})

(* An index of heat_dem_list[b][t] or cool_dem_list[b][t] out of range, for *)
(* the b of bldgs and t of t_steps the two list functions iterate over.     *)
IndexOutOfRange(hl, cl, bldgs, t_steps) ==
    \E t \in t_steps : \E b \in bldgs :
        \/ b > Len(cl)
        \/ t > Len(hl[b])
        \/ t > Len(cl[b])

(* ---------------- calc_mean_BES_DOC ---------------- *)
(* Variant: the minimum taken after summing over the buildings. *)
calc_mean_BES_DOC_pooled(hl, cl) ==
    IF Len(hl) = 0 THEN Raise("IndexError")
    ELSE
    LET t_steps == 1..Len(hl[1])
        bldgs == 1..Len(hl)
    IN  IF IndexOutOfRange(hl, cl, bldgs, t_steps) THEN Raise("IndexError")
        ELSE
        LET counter == 2 * sum([t \in t_steps |->
                             np_min(sum([b \in bldgs |-> hl[b][t]]),
                                    sum([b \in bldgs |-> cl[b][t]]))])
            denominator == sum([t \in t_steps |->
                               sum([b \in bldgs |-> hl[b][t]])
                               + sum([b \in bldgs |-> cl[b][t]])])
        IN  truediv(counter, denominator, t_steps # {})

calc_mean_BES_DOC(hl, cl) ==
    IF Len(hl) = 0 THEN Raise("IndexError")
    ELSE
    LET t_steps == 1..Len(hl[1])
        bldgs == 1..Len(hl)
    IN  IF IndexOutOfRange(hl, cl, bldgs, t_steps) THEN Raise("IndexError")
        ELSE
        LET counter == 2 * sum([t \in t_steps |->
                             sum([b \in bldgs |-> np_min(hl[b][t], cl[b][t])])])
            denominator == sum([t \in t_steps |->
                               sum([b \in bldgs |-> hl[b][t]])
                               + sum([b \in bldgs |-> cl[b][t]])])
        IN  truediv(counter, denominator, t_steps # {})

(* ---------------- calc_Network_DOC ---------------- *)
(* Variant: the factor 2 of the counter is left out. *)
calc_Network_DOC_no_factor(hl, cl) ==
    IF Len(hl) = 0 THEN Raise("IndexError")
    ELSE
    LET t_steps == 1..Len(hl[1])
        bldgs == 1..Len(hl)
    IN  IF IndexOutOfRange(hl, cl, bldgs, t_steps) THEN Raise("IndexError")
        ELSE
        LET counter == sum([t \in t_steps |->
                             np_min(sum([b \in bldgs |-> hl[b][t]]),
                                    sum([b \in bldgs |-> cl[b][t]]))])
            denominator == sum([t \in t_steps |->
                               sum([b \in bldgs |-> hl[b][t]])
                               + sum([b \in bldgs |-> cl[b][t]])])
        IN  truediv(counter, denominator, t_steps # {})

(* Variant: the minimum taken per building, before the sum. *)
calc_Network_DOC_per_bldg(hl, cl) ==
    IF Len(hl) = 0 THEN Raise("IndexError")
    ELSE
    LET t_steps == 1..Len(hl[1])
        bldgs == 1..Len(hl)
    IN  IF IndexOutOfRange(hl, cl, bldgs, t_steps) THEN Raise("IndexError")
        ELSE
        LET counter == 2 * sum([t \in t_steps |->
                             sum([b \in bldgs |-> np_min(hl[b][t], cl[b][t])])])
            denominator == sum([t \in t_steps |->
                               sum([b \in bldgs |-> hl[b][t]])
                               + sum([b \in bldgs |-> cl[b][t]])])
        IN  truediv(counter, denominator, t_steps # {})

calc_Network_DOC(hl, cl) ==
    IF Len(hl) = 0 THEN Raise("IndexError")
    ELSE
    LET t_steps == 1..Len(hl[1])
        bldgs == 1..Len(hl)
    IN  IF IndexOutOfRange(hl, cl, bldgs, t_steps) THEN Raise("IndexError")
        ELSE
        LET counter == 2 * sum([t \in t_steps |->
                             np_min(sum([b \in bldgs |-> hl[b][t]]),
                                    sum([b \in bldgs |-> cl[b][t]]))])
            denominator == sum([t \in t_steps |->
                               sum([b \in bldgs |-> hl[b][t]])
                               + sum([b \in bldgs |-> cl[b][t]])])
        IN  truediv(counter, denominator, t_steps # {})

(* ---------------- __main__: array arithmetic ---------------- *)
(* a * c for a numpy array a and a scalar c. *)
np_scale(a, c) == [k \in 1..Len(a) |-> a[k] * c]

(* a + b for numpy arrays: elementwise, an array of length 1 is broadcast, *)
(* any other pair of different lengths raises ValueError.                   *)
np_add(a, b) ==
    IF Len(a) = Len(b) THEN [ok |-> TRUE, arr |-> [k \in 1..Len(a) |-> a[k] + b[k]]]
    ELSE IF Len(a) = 1 THEN [ok |-> TRUE, arr |-> [k \in 1..Len(b) |-> a[1] + b[k]]]
    ELSE IF Len(b) = 1 THEN [ok |-> TRUE, arr |-> [k \in 1..Len(a) |-> a[k] + b[1]]]
    ELSE [ok |-> FALSE, arr |-> <<>>]

(* sum_heat_demand = heat_demand_bldg_1 + heat_demand_bldg_2 (+ ...). *)
RECURSIVE sum_demand(_)
sum_demand(dem_list) ==
    IF Len(dem_list) = 1 THEN [ok |-> TRUE, arr |-> dem_list[1]]
    ELSE LET front == sum_demand(SubSeq(dem_list, 1, Len(dem_list) - 1))
         IN  IF front.ok THEN np_add(front.arr, dem_list[Len(dem_list)]) ELSE front

(* Variant: np.max in place of np.min. *)
bal_max(heat, cold) ==
    [t \in 1..Len(heat) |-> IF heat[t] >= cold[t] THEN heat[t] ELSE cold[t]]

(* bal = np.min([heat, cold], 0) for two arrays of one length. *)
bal(heat, cold) == [t \in 1..Len(heat) |-> np_min(heat[t], cold[t])]

(* heat_net_demand = heat - bal, cold_net_demand = cold - bal. *)
net_demand(heat, cold) ==
    <<[t \in 1..Len(heat) |-> heat[t] - bal(heat, cold)[t]],
      [t \in 1..Len(cold) |-> cold[t] - bal(heat, cold)[t]]>>

net_demand_lists(hl, cl) ==
    <<[b \in 1..Len(hl) |-> net_demand(hl[b], cl[b])[1]],
      [b \in 1..Len(hl) |-> net_demand(hl[b], cl[b])[2]]>>

(* ---------------- input spaces ---------------- *)
(* Sequences of n naturals whose sum is at most k. *)
RECURSIVE CellsUpTo(_, _)
CellsUpTo(n, k) ==
    IF n = 0 THEN {<<>>}
    ELSE UNION {{Append(s, v) : v \in 0..(k - sum(s))} : s \in CellsUpTo(n - 1, k)}

(* The B x T heat and cold lists laid out in one sequence of 2*B*T cells. *)
Shaped(cells, B, T) ==
    <<[b \in 1..B |-> [t \in 1..T |-> cells[(b - 1) * T + t]]],
      [b \in 1..B |-> [t \in 1..T |-> cells[B * T + (b - 1) * T + t]]]>>

(* Aligned inputs: B entities with T time steps each, B * T at most MaxCells, *)
(* total demand at most MaxTotal.                                             *)
AlignedInputs ==
    UNION {{Shaped(cells, x[1], x[2]) : cells \in CellsUpTo(2 * x[1] * x[2], MaxTotal)} :
           x \in {y \in (1..MaxCells) \X (1..MaxCells) : y[1] * y[2] <= MaxCells}}

(* Inputs of any shape (no entity, empty series, lengths that differ), every *)
(* demand value the same v.                                                  *)
ShapedLists(v) ==
    LET series == {[t \in 1..n |-> v] : n \in 0..MaxT}
    IN  UNION {[1..B -> series] : B \in 0..MaxBldgs}

AnyShapeInputs == UNION {ShapedLists(v) \X ShapedLists(v) : v \in 0..1}

(* One heat and one cold series of any two lengths, values up to MaxVal. *)
Series == UNION {[1..n -> 0..MaxVal] : n \in 0..MaxT}

TypeOK ==
    /\ pc \in {"raw", "net"}
    /\ call \in {"none", "calc_DOC", "district", "calc_mean_BES_DOC",
                 "calc_Network_DOC", "net_demand"}
    /\ scale \in 1..MaxScale
    /\ ret.kind \in {"unset", "float", "nan", "inf", "IndexError",
                     "ZeroDivisionError", "ValueError"}

(* ---------------- multi-entity specification ---------------- *)
Init ==
    /\ \E input \in AlignedInputs \cup AnyShapeInputs :
          /\ heat_dem_list = input[1]
          /\ cool_dem_list = input[2]
    /\ scale = 1
    /\ pc = "raw"
    /\ call = "none"
    /\ ret = Unset

(* DOC_district = calc_DOC(sum_heat_demand, sum_cool_demand) *)
District ==
    /\ call = "none" /\ pc = "raw"
    /\ Len(heat_dem_list) >= 1 /\ Len(cool_dem_list) >= 1
    /\ LET sum_heat_demand == sum_demand(heat_dem_list)
           sum_cool_demand == sum_demand(cool_dem_list)
       IN  ret' = IF sum_heat_demand.ok /\ sum_cool_demand.ok
                  THEN calc_DOC(sum_heat_demand.arr, sum_cool_demand.arr)
                  ELSE Raise("ValueError")
    /\ call' = "district"
    /\ UNCHANGED <<heat_dem_list, cool_dem_list, scale, pc>>

(* mean_BES_DOC = calc_mean_BES_DOC(heat_dem_list, cool_dem_list) *)
MeanBES ==
    /\ call = "none" /\ pc = "raw"
    /\ ret' = calc_mean_BES_DOC(heat_dem_list, cool_dem_list)
    /\ call' = "calc_mean_BES_DOC"
    /\ UNCHANGED <<heat_dem_list, cool_dem_list, scale, pc>>

(* Network_DOC = calc_Network_DOC(heat_dem_list, cool_dem_list), on the raw *)
(* lists or on the net demands.                                             *)
Network ==
    /\ call = "none"
    /\ ret' = calc_Network_DOC(heat_dem_list, cool_dem_list)
    /\ call' = "calc_Network_DOC"
    /\ UNCHANGED <<heat_dem_list, cool_dem_list, scale, pc>>

(* The net heat/cold demand of every building replaces the lists.  np.min *)
(* of two arrays of different lengths raises ValueError.                  *)
NetDemand ==
    /\ call = "none" /\ pc = "raw"
    /\ Len(heat_dem_list) >= 1 /\ Len(cool_dem_list) = Len(heat_dem_list)
    /\ IF \E b \in 1..Len(heat_dem_list) : Len(heat_dem_list[b]) # Len(cool_dem_list[b])
       THEN /\ ret' = Raise("ValueError")
            /\ call' = "net_demand"
            /\ UNCHANGED <<heat_dem_list, cool_dem_list, scale, pc>>
       ELSE /\ heat_dem_list' = net_demand_lists(heat_dem_list, cool_dem_list)[1]
            /\ cool_dem_list' = net_demand_lists(heat_dem_list, cool_dem_list)[2]
            /\ pc' = "net"
            /\ UNCHANGED <<scale, call, ret>>

Next == District \/ MeanBES \/ Network \/ NetDemand

Spec == Init /\ [][Next]_vars

(* ---------------- single-series specification ---------------- *)
InitDOC ==
    /\ \E heat_demand \in Series, cold_demand \in Series :
          /\ heat_dem_list = <<heat_demand>>
          /\ cool_dem_list = <<cold_demand>>
    /\ scale = 1
    /\ pc = "raw"
    /\ call = "none"
    /\ ret = Unset

(* DOC_BES_1 = calc_DOC(heat_demand_1 * c, cold_demand_1 * c) *)
BES_DOC(c) ==
    /\ call = "none"
    /\ ret' = calc_DOC(np_scale(heat_dem_list[1], c), np_scale(cool_dem_list[1], c))
    /\ call' = "calc_DOC"
    /\ scale' = c
    /\ UNCHANGED <<heat_dem_list, cool_dem_list, pc>>

NextDOC == \E c \in 1..MaxScale : BES_DOC(c)

SpecDOC == InitDOC /\ [][NextDOC]_vars

(* ======================= properties ======================= *)
(* The heat and cold lists pair up: as many cold as heat series, at least   *)
(* one, every series of one common length.                                  *)
Aligned ==
    /\ Len(heat_dem_list) >= 1
    /\ Len(cool_dem_list) = Len(heat_dem_list)
    /\ \A b \in 1..Len(heat_dem_list) :
          /\ Len(heat_dem_list[b]) = Len(heat_dem_list[1])
          /\ Len(cool_dem_list[b]) = Len(heat_dem_list[1])

Bldgs == 1..Len(heat_dem_list)
Steps == 1..Len(heat_dem_list[1])

(* Total demand: every value of every heat and cold series. *)
TotalDemand ==
    sum([b \in 1..Len(heat_dem_list) |-> sum(heat_dem_list[b])])
    + sum([b \in 1..Len(cool_dem_list) |-> sum(cool_dem_list[b])])

Lesser(a, b) == IF a < b THEN a ELSE b

(* Sum over entities and time of the per-entity, per-step minimum. *)
OverlapPerEntity ==
    sum([b \in Bldgs |->
          sum([t \in Steps |-> Lesser(heat_dem_list[b][t], cool_dem_list[b][t])])])

PooledHeat(t) == sum([b \in Bldgs |-> heat_dem_list[b][t]])
PooledCold(t) == sum([b \in Bldgs |-> cool_dem_list[b][t]])

(* Sum over time of the minimum of the pooled heat and pooled cold. *)
OverlapPooled == sum([t \in Steps |-> Lesser(PooledHeat(t), PooledCold(t))])

IsValue(x) == x.kind = "float" /\ x.denominator > 0
DOCEq(x, y) ==
    IsValue(x) /\ IsValue(y) /\ x.counter * y.denominator = y.counter * x.denominator
DOCGeq(x, y) ==
    IsValue(x) /\ IsValue(y) /\ x.counter * y.denominator >= y.counter * x.denominator
IsOne(x) == IsValue(x) /\ x.counter = x.denominator
IsZero(x) == IsValue(x) /\ x.counter = 0

heat_1 == heat_dem_list[1]
cool_1 == cool_dem_list[1]

SignsAgree ==
    \A t \in Steps : ~ \E b1, b2 \in Bldgs :
        /\ heat_dem_list[b1][t] > cool_dem_list[b1][t]
        /\ cool_dem_list[b2][t] > heat_dem_list[b2][t]

(* C2: on a valid multi-entity input the network DOC is at least the mean   *)
(* BES DOC of the same lists, and equal to it when the entities' heat-vs-   *)
(* cold comparisons agree in sign at every step.                            *)
C2_NetworkGeqMean ==
    (call = "calc_Network_DOC" /\ Aligned /\ TotalDemand > 0)
    => /\ DOCGeq(ret, calc_mean_BES_DOC(heat_dem_list, cool_dem_list))
       /\ SignsAgree => DOCEq(ret, calc_mean_BES_DOC(heat_dem_list, cool_dem_list))

C2_Witness ==
    /\ call = "calc_Network_DOC" /\ pc = "raw"
    /\ heat_dem_list = <<<<2, 0>>, <<0, 1>>>>
    /\ cool_dem_list = <<<<0, 0>>, <<1, 0>>>>
    /\ ret = Float(2, 4)
    /\ calc_mean_BES_DOC(heat_dem_list, cool_dem_list) = Float(0, 4)

(* C3: the mean BES DOC is twice the per-entity, per-step minima summed     *)
(* over entities and time, the network DOC twice the minima of the pooled   *)
(* sums, both over the same total demand; so the mean is 0 when every       *)
(* entity has min = 0 at every step, the network DOC 1 when pooled heat     *)
(* equals pooled cold at every step (A = [1,0]/[0,1], B = [0,1]/[1,0]).     *)
C3_AggregationOrder ==
    (Aligned /\ TotalDemand > 0)
    => /\ call = "calc_mean_BES_DOC" =>
            /\ ret = Float(2 * OverlapPerEntity, TotalDemand)
            /\ (\A b \in Bldgs, t \in Steps :
                   Lesser(heat_dem_list[b][t], cool_dem_list[b][t]) = 0) => IsZero(ret)
       /\ call = "calc_Network_DOC" =>
            /\ ret = Float(2 * OverlapPooled, TotalDemand)
            /\ (\A t \in Steps : PooledHeat(t) = PooledCold(t)) => IsOne(ret)
       /\ (/\ heat_dem_list = <<<<1, 0>>, <<0, 1>>>>
           /\ cool_dem_list = <<<<0, 1>>, <<1, 0>>>>)
          => /\ call = "calc_mean_BES_DOC" => IsZero(ret)
             /\ call = "calc_Network_DOC" => IsOne(ret)

C3_Witness ==
    /\ call = "calc_mean_BES_DOC"
    /\ heat_dem_list = <<<<1, 0>>, <<0, 1>>>>
    /\ cool_dem_list = <<<<0, 1>>, <<1, 0>>>>
    /\ ret = Float(0, 4)
    /\ calc_Network_DOC(heat_dem_list, cool_dem_list) = Float(4, 4)

(* C10: the network DOC equals calc_DOC of the heat and cold summed over    *)
(* the entities at each step (the district DOC); with one entity the        *)
(* network DOC, the mean BES DOC and calc_DOC agree.                        *)
C10_NetworkIsDistrict ==
    (Aligned /\ TotalDemand > 0)
    => /\ call = "calc_Network_DOC" =>
            DOCEq(ret, calc_DOC(sum_demand(heat_dem_list).arr,
                                sum_demand(cool_dem_list).arr))
       /\ call = "district" =>
            DOCEq(ret, calc_Network_DOC(heat_dem_list, cool_dem_list))
       /\ (Len(heat_dem_list) = 1
           /\ call \in {"calc_Network_DOC", "calc_mean_BES_DOC", "district"})
          => DOCEq(ret, calc_DOC(heat_1, cool_1))

C10_Witness ==
    /\ call = "calc_Network_DOC" /\ pc = "raw"
    /\ heat_dem_list = <<<<1, 0>>, <<0, 1>>>>
    /\ cool_dem_list = <<<<0, 1>>, <<1, 0>>>>
    /\ ret = calc_DOC(<<1, 1>>, <<1, 1>>)
    /\ IsOne(ret)

(* C8: the net demands are non-negative, at every step at least one of net  *)
(* heat and net cold is zero, and the transform leaves net demands as they  *)
(* are.                                                                     *)
C8_NetDemand ==
    pc = "net"
    => /\ \A b \in Bldgs : \A t \in 1..Len(heat_dem_list[b]) :
             /\ heat_dem_list[b][t] >= 0
             /\ cool_dem_list[b][t] >= 0
             /\ Lesser(heat_dem_list[b][t], cool_dem_list[b][t]) = 0
       /\ net_demand_lists(heat_dem_list, cool_dem_list)
             = <<heat_dem_list, cool_dem_list>>

C8_Witness ==
    /\ pc = "net" /\ call = "none"
    /\ heat_dem_list = <<<<2, 0>>, <<0, 0>>>>
    /\ cool_dem_list = <<<<0, 1>>, <<0, 1>>>>

(* The exceptions the code can raise. *)
PythonExceptions == {"IndexError", "ZeroDivisionError", "ValueError"}

(* The series of one pair are non-empty and differ in length. *)
LengthsDiffer(heat, cool) == Len(heat) >= 1 /\ Len(cool) >= 1 /\ Len(heat) # Len(cool)

(* C4: calc_DOC on heat and cool series of different lengths (either one    *)
(* the longer) signals a dimension-mismatch error and returns no DOC value. *)
(* Any exception the call raises is taken as that signal.                   *)
C4_DimensionMismatch ==
    (call = "calc_DOC" /\ LengthsDiffer(heat_1, cool_1) /\ TotalDemand > 0)
    => ret.kind \in {"DimensionMismatch"} \cup PythonExceptions

(* Non-empty lists of non-empty series that do not line up. *)
ListsMismatch ==
    /\ Len(heat_dem_list) >= 1 /\ Len(cool_dem_list) >= 1
    /\ \A b \in 1..Len(heat_dem_list) : Len(heat_dem_list[b]) >= 1
    /\ \A b \in 1..Len(cool_dem_list) : Len(cool_dem_list[b]) >= 1
    /\ ~Aligned

(* C5: calc_mean_BES_DOC and calc_Network_DOC signal a dimension-mismatch   *)
(* error and return no value when series lengths differ between or within   *)
(* entities or the two lists hold different numbers of entities.  Any       *)
(* exception the call raises is taken as that signal.                       *)
C5_ListDimensionMismatch ==
    (/\ call \in {"calc_mean_BES_DOC", "calc_Network_DOC"}
     /\ ListsMismatch /\ TotalDemand > 0)
    => ret.kind \in {"DimensionMismatch"} \cup PythonExceptions

(* C6: with a zero total demand over non-empty series each of the three DOC *)
(* functions raises an error (DegenerateInput) or returns 0, all three the  *)
(* same.  Any exception the call raises is taken as the error.              *)
C6_DegenerateInput ==
    (/\ call \in {"district", "calc_mean_BES_DOC", "calc_Network_DOC"}
     /\ Aligned /\ Len(heat_1) >= 1 /\ TotalDemand = 0)
    => /\ ret.kind \in {"DegenerateInput"} \cup PythonExceptions \/ IsZero(ret)
       /\ ret = calc_mean_BES_DOC(heat_dem_list, cool_dem_list)
       /\ ret = calc_Network_DOC(heat_dem_list, cool_dem_list)

(* C7: zero entities (list functions) or series of zero time steps (all     *)
(* three functions) raise EmptyInput.                                       *)
C7_EmptyInput ==
    /\ (call \in {"calc_mean_BES_DOC", "calc_Network_DOC"} /\ Len(heat_dem_list) = 0)
       => ret.kind = "EmptyInput"
    /\ (/\ call \in {"district", "calc_mean_BES_DOC", "calc_Network_DOC"}
        /\ Aligned /\ Len(heat_1) = 0)
       => ret.kind = "EmptyInput"
====
